---- MODULE Spec2Model ----
(***************************************************************************)
(* A model of mistletoe's MarkdownRenderer (mistletoe/markdown_renderer.py) *)
(* and of the span tokens it renders (mistletoe/span_token.py).            *)
(*                                                                         *)
(* Text is a sequence of one-character strings: "ab c" is                  *)
(* <<"a", "b", " ", "c">>.  An optional integer (max_line_length, which    *)
(* defaults to None) is None == <<>> or <<n>>.                             *)
(***************************************************************************)
EXTENDS Integers, Sequences, FiniteSets, TLC

VARIABLES
    tokens,             \* the tokens handed to the renderer
    max_line_length,    \* the max_line_length argument of render
    pc,                 \* "start", "flattened", "done"
    particles,          \* the Particles the span tokens were rendered into
    words,              \* what make_words yielded (reflow mode)
    lines,              \* what the renderer yielded
    tbl_content,        \* render_table's content: the texts of the cells
    tbl_widths,         \* render_table's col_widths
    source,             \* the markdown text parsed into the tokens
    rendered,           \* the string render returned
    token_types,        \* span_token._token_types, the list of the module
    own,                \* per caller: the list its own calls alone would give
    used,               \* per caller: what its last tokenize_inner call used
    last_call,          \* the last call made on the token type list
    calls               \* the number of calls made on the token type list

render_vars == <<tokens, max_line_length, pc, particles, words, lines,
                 tbl_content, tbl_widths, source, rendered>>

registry_vars == <<token_types, own, used, last_call, calls>>

vars == <<tokens, max_line_length, pc, particles, words, lines, tbl_content,
          tbl_widths, source, rendered, token_types, own, used, last_call,
          calls>>

----------------------------------------------------------------------------
(* Bounds of the model. *)

MaxTokens == 3
MaxLineLength == 4
MaxDepth == 2
MaxWidth == 8
MaxRows == 2
MaxPieces == 7

----------------------------------------------------------------------------
(* Python values and string operations. *)

None == <<>>

Some(n) == <<n>>

\* Python's truth value of an optional integer: None and 0 are both false.
Truthy(opt) == opt # None /\ opt[1] # 0

\* str.isspace() for one character; also the class \s of the re module.
IsSpaceChar(c) == c \in {" ", "\n", "\t"}

\* str.isspace(): at least one character, and all of them whitespace.
IsSpace(s) == Len(s) > 0 /\ \A i \in 1..Len(s) : IsSpaceChar(s[i])

\* c * n for a one-character string c; empty when n <= 0.
Repeat(c, n) == [i \in 1..n |-> c]

StartsWith(s, p) == Len(s) >= Len(p) /\ SubSeq(s, 1, Len(p)) = p

EndsWith(s, p) == Len(s) >= Len(p) /\ SubSeq(s, Len(s) - Len(p) + 1, Len(s)) = p

\* itertools.chain.from_iterable / "".join over a sequence of sequences.
RECURSIVE Chain(_)
Chain(seqs) == IF seqs = <<>> THEN <<>> ELSE Head(seqs) \o Chain(Tail(seqs))

\* str.split(sep) for a one-character separator: k separators give k+1 items.
RECURSIVE SplitOn(_, _, _, _)
SplitOn(s, sep, i, cur) ==
    IF i > Len(s) THEN <<cur>>
    ELSE IF s[i] = sep THEN <<cur>> \o SplitOn(s, sep, i + 1, <<>>)
    ELSE SplitOn(s, sep, i + 1, Append(cur, s[i]))

\* re.compile(r"\s+").split(s): the items between maximal whitespace runs;
\* leading or trailing whitespace gives an empty first or last item.
RECURSIVE WhitespaceSplit(_, _, _, _)
WhitespaceSplit(s, i, cur, inRun) ==
    IF i > Len(s) THEN <<cur>>
    ELSE IF IsSpaceChar(s[i])
         THEN IF inRun THEN WhitespaceSplit(s, i + 1, cur, TRUE)
              ELSE <<cur>> \o WhitespaceSplit(s, i + 1, <<>>, TRUE)
         ELSE WhitespaceSplit(s, i + 1, Append(cur, s[i]), FALSE)

\* The backtick character (U+0060), which a TLA+ string cannot hold: one
\* symbol of a text, like every other character.
Backtick == "BACKTICK"

SeqsUpTo(S, n) == UNION {[1..k -> S] : k \in 0..n}

----------------------------------------------------------------------------
(* Span tokens (span_token.py). *)

RawText(content) == [type |-> "RawText", content |-> content]

Strong(delimiter, children) ==
    [type |-> "Strong", delimiter |-> delimiter, children |-> children]

Emphasis(delimiter, children) ==
    [type |-> "Emphasis", delimiter |-> delimiter, children |-> children]

Strikethrough(children) == [type |-> "Strikethrough", children |-> children]

\* InlineCode.__init__: raw_content and delimiter are kept as matched; the
\* child RawText gets the content with newlines replaced and one padding
\* space removed on each side.
InlineCodeContent(content) ==
    LET replaced == [i \in 1..Len(content) |->
                        IF content[i] = "\n" THEN " " ELSE content[i]]
    IN  IF ~IsSpace(replaced) /\ StartsWith(replaced, <<" ">>)
           /\ EndsWith(replaced, <<" ">>)
        THEN SubSeq(replaced, 2, Len(replaced) - 1)
        ELSE replaced

InlineCode(delimiter, content) ==
    [type |-> "InlineCode", raw_content |-> content, delimiter |-> delimiter,
     children |-> <<RawText(InlineCodeContent(content))>>]

\* Link.__init__ / Image.__init__: dest_type, label and title_delimiter come
\* from the match, None when the match has none (getattr(match, ..., None));
\* dest_type is None or Some(name).
Link(children, target, title, dest_type, label, title_delimiter) ==
    [type |-> "Link", children |-> children, target |-> target,
     title |-> title, dest_type |-> dest_type, label |-> label,
     title_delimiter |-> title_delimiter]

Image(children, src, title, dest_type, label, title_delimiter) ==
    [type |-> "Image", children |-> children, src |-> src,
     title |-> title, dest_type |-> dest_type, label |-> label,
     title_delimiter |-> title_delimiter]

AutoLink(content) ==
    [type |-> "AutoLink", children |-> <<RawText(content)>>, target |-> content]

EscapeSequence(char) ==
    [type |-> "EscapeSequence", children |-> <<RawText(<<char>>)>>]

LineBreakSoft_one_space(marker) ==
    ~(StartsWith(marker, <<" ">>) \/ StartsWith(marker, <<"\\">>))

\* LineBreak.__init__: soft unless the marker starts with two spaces or a
\* backslash.
LineBreakSoft(marker) ==
    ~(StartsWith(marker, <<" ", " ">>) \/ StartsWith(marker, <<"\\">>))

LineBreak(marker) ==
    [type |-> "LineBreak", content |-> <<>>, marker |-> marker,
     soft |-> LineBreakSoft(marker)]

HTMLSpan(content) == [type |-> "HTMLSpan", content |-> content]

----------------------------------------------------------------------------
(* The list of span token types (span_token.py). *)

\* __all__: the token classes of the parsing process, in order.
AllTokens ==
    << "EscapeSequence", "Strikethrough", "AutoLink", "CoreTokens",
       "InlineCode", "LineBreak", "RawText" >>

Min(a, b) == IF a <= b THEN a ELSE b

\* list.insert(position, x): before the item at the 0-based position, which
\* counts from the end when negative and is clamped to the list.
ListInsert(l, position, x) ==
    LET i == IF position < 0
             THEN (IF Len(l) + position < 0 THEN 0 ELSE Len(l) + position)
             ELSE Min(position, Len(l))
    IN  SubSeq(l, 1, i) \o <<x>> \o SubSeq(l, i + 1, Len(l))

Contains(l, x) == \E i \in 1..Len(l) : l[i] = x

\* list.remove(x) for a list that holds x: its first occurrence is removed.
ListRemove(l, x) ==
    LET i == CHOOSE j \in 1..Len(l) :
                 l[j] = x /\ \A k \in 1..(j - 1) : l[k] # x
    IN  SubSeq(l, 1, i - 1) \o SubSeq(l, i + 1, Len(l))

\* add_token: _token_types.insert(position, token_cls), whatever the class.
add_token(types, token_cls, position) == ListInsert(types, position, token_cls)

\* remove_token: _token_types.remove(token_cls), which raises ValueError and
\* leaves the list alone when the class is not in it.
remove_token(types, token_cls) ==
    IF Contains(types, token_cls) THEN ListRemove(types, token_cls) ELSE types

remove_token_raises(types, token_cls) ==
    IF Contains(types, token_cls) THEN None ELSE <<"ValueError">>

\* reset_tokens: the classes of __all__.
reset_tokens == AllTokens

Callers == {1, 2}

NoCall == [op |-> "none", caller |-> 0, token_cls |-> "", before |-> <<>>,
           raised |-> None]

\* The module as imported: _token_types = [] followed by reset_tokens().
RegistryInit ==
    /\ token_types = reset_tokens
    /\ own = [c \in Callers |-> reset_tokens]
    /\ used = [c \in Callers |-> None]
    /\ last_call = NoCall
    /\ calls = 0

----------------------------------------------------------------------------
(* Rendering of span tokens into Particles (markdown_renderer.py). *)

\* Particle.__init__.  Of the owning token the renderer reads only the class
\* and, for a LineBreak, the soft flag: token holds the class name.  tag is
\* None or Some(name).
Particle(text, token, tag, wordwrap) ==
    [text |-> text, token |-> token.type,
     soft |-> IF token.type = "LineBreak" THEN token.soft ELSE FALSE,
     tag |-> tag, wordwrap |-> wordwrap]

RECURSIVE render_span(_)
RECURSIVE render_spans(_)

\* embed_span: the leader, the flattened tokens, then "trailer or leader".
embed_span(leader, children, trailer) ==
    <<leader>> \o render_spans(children)
        \o <<IF trailer = None THEN leader ELSE trailer[1]>>

render_raw_text(token) == <<Particle(token.content, token, None, TRUE)>>

render_strong_canonical(token) ==
    embed_span(Particle(<<"*", "*">>, token, None, FALSE), token.children, None)

render_strong(token) ==
    embed_span(Particle(token.delimiter \o token.delimiter, token, None, FALSE),
               token.children, None)

render_emphasis(token) ==
    embed_span(Particle(token.delimiter, token, None, FALSE),
               token.children, None)

render_inline_code_wrappable(token) ==
    << Particle(token.delimiter, token, None, FALSE),
       Particle(token.raw_content, token, None, TRUE),
       Particle(token.delimiter, token, None, FALSE) >>

render_inline_code_stripped(token) ==
    << Particle(token.delimiter, token, None, FALSE),
       Particle(token.children[1].content, token, None, FALSE),
       Particle(token.delimiter, token, None, FALSE) >>

render_inline_code(token) ==
    << Particle(token.delimiter, token, None, FALSE),
       Particle(token.raw_content, token, None, FALSE),
       Particle(token.delimiter, token, None, FALSE) >>

render_strikethrough(token) ==
    embed_span(Particle(<<"~", "~">>, token, None, FALSE), token.children, None)

render_auto_link(token) ==
    <<Particle(<<"<">> \o token.children[1].content \o <<">">>, token, None, FALSE)>>

render_escape_sequence(token) ==
    <<Particle(<<"\\">> \o token.children[1].content, token, None, FALSE)>>

render_line_break(token) ==
    <<Particle(token.marker \o <<"\n">>, token, None, token.soft)>>

render_html_span(token) == <<Particle(token.content, token, None, FALSE)>>

TitleCloser_same_delimiter(title_delimiter) == title_delimiter

\* ')' if token.title_delimiter == '(' else token.title_delimiter
TitleCloser(title_delimiter) ==
    IF title_delimiter = <<"(">> THEN <<")">> ELSE title_delimiter

render_link_or_image(token, target, is_image) ==
    embed_span(Particle(IF is_image THEN <<"!", "[">> ELSE <<"[">>, token, None, FALSE),
               token.children,
               Some(Particle(<<"]">>, token, None, FALSE)))
    \o
    IF token.dest_type = Some("uri") \/ token.dest_type = Some("angle_uri")
    THEN <<Particle(<<"(">>, token, None, FALSE),
           Particle(IF token.dest_type = Some("angle_uri")
                    THEN <<"<">> \o target \o <<">">> ELSE target,
                    token, Some("dest_part"), FALSE)>>
         \o (IF token.title # <<>>
             THEN <<Particle(<<" ">>, token, None, TRUE),
                    Particle(token.title_delimiter, token, None, FALSE),
                    Particle(token.title, token, Some("title"), TRUE),
                    Particle(TitleCloser(token.title_delimiter), token, None, FALSE)>>
             ELSE <<>>)
         \o <<Particle(<<")">>, token, None, FALSE)>>
    ELSE IF token.dest_type = Some("full")
    THEN <<Particle(<<"[">>, token, None, FALSE),
           Particle(token.label, token, Some("label"), TRUE),
           Particle(<<"]">>, token, None, FALSE)>>
    ELSE IF token.dest_type = Some("collapsed")
    THEN <<Particle(<<"[", "]">>, token, None, FALSE)>>
    ELSE <<>>

render_image(token) == render_link_or_image(token, token.src, TRUE)

render_link(token) == render_link_or_image(token, token.target, FALSE)

\* LinkReferenceDefinition.__init__: the five items of the match.
LinkReferenceDefinition(label, dest, title, dest_type, title_delimiter) ==
    [type |-> "LinkReferenceDefinition", label |-> label, dest |-> dest,
     title |-> title, dest_type |-> dest_type,
     title_delimiter |-> title_delimiter]

render_link_reference_definition(token) ==
    <<Particle(<<"[">>, token, None, FALSE),
      Particle(token.label, token, Some("label"), TRUE),
      Particle(<<"]", ":", " ">>, token, None, TRUE),
      Particle(IF token.dest_type = Some("angle_uri")
               THEN <<"<">> \o token.dest \o <<">">> ELSE token.dest,
               token, None, FALSE)>>
    \o (IF token.title # <<>>
        THEN <<Particle(<<" ">>, token, None, TRUE),
               Particle(token.title_delimiter, token, None, FALSE),
               Particle(token.title, token, None, TRUE),
               Particle(TitleCloser(token.title_delimiter), token, None, FALSE)>>
        ELSE <<>>)

\* self.render_map[token.__class__.__name__](token) for a span token.
render_span(token) ==
    CASE token.type = "RawText" -> render_raw_text(token)
      [] token.type = "Strong" -> render_strong(token)
      [] token.type = "Emphasis" -> render_emphasis(token)
      [] token.type = "InlineCode" -> render_inline_code(token)
      [] token.type = "Strikethrough" -> render_strikethrough(token)
      [] token.type = "Image" -> render_image(token)
      [] token.type = "Link" -> render_link(token)
      [] token.type = "AutoLink" -> render_auto_link(token)
      [] token.type = "EscapeSequence" -> render_escape_sequence(token)
      [] token.type = "LineBreak" -> render_line_break(token)
      [] token.type = "HTMLSpan" -> render_html_span(token)
      [] token.type = "LinkReferenceDefinition" ->
             render_link_reference_definition(token)

\* chain.from_iterable([render_map[...](token) for token in tokens])
render_spans(toks) ==
    IF toks = <<>> THEN <<>>
    ELSE render_span(Head(toks)) \o render_spans(Tail(toks))

----------------------------------------------------------------------------
(* make_words and span_to_lines. *)

\* The inner loop of make_words over the items of one wrap-eligible
\* particle: the first item continues the current word, every further item
\* yields the current word (when not empty) and starts a new one.
RECURSIVE wordwrap_items(_, _, _, _)
wordwrap_items(items, j, word, out) ==
    IF j > Len(items) THEN [word |-> word, out |-> out]
    ELSE IF j = 1 THEN wordwrap_items(items, 2, word \o items[1], out)
    ELSE wordwrap_items(items, j + 1, items[j],
                        IF word # <<>> THEN Append(out, word) ELSE out)

\* isinstance(particle.token, span_token.LineBreak) and not particle.token.soft
IsHardBreak(particle) == particle.token = "LineBreak" /\ ~particle.soft

hard_break_words_merging(word, particle) ==
    << word \o SubSeq(particle.text, 1, Len(particle.text) - 1) >>

\* make_words at a hard line break: yield from (word + particle.text[:-1], "\n")
hard_break_words(word, particle) ==
    << word \o SubSeq(particle.text, 1, Len(particle.text) - 1), <<"\n">> >>

append_whole_spaced(word, particle) ==
    IF word = <<>> THEN particle.text ELSE word \o <<" ">> \o particle.text

\* make_words for a particle that is not wrap-eligible: word += particle.text
append_whole(word, particle) == word \o particle.text

\* The loop of make_words.  out holds the words yielded so far, a hard line
\* break being the word <<"\n">>.  origin is bookkeeping for the properties:
\* for each particle appended whole to the current word, the index the word
\* gets in out and the offset of the particle's text in it.
RECURSIVE make_words_loop(_, _, _, _, _)
make_words_loop(parts, i, word, out, origin) ==
    IF i > Len(parts)
    THEN [words |-> IF word # <<>> THEN Append(out, word) ELSE out,
          origin |-> origin]
    ELSE LET particle == parts[i] IN
         IF particle.wordwrap
         THEN LET r == wordwrap_items(
                           WhitespaceSplit(particle.text, 1, <<>>, FALSE),
                           1, word, out)
              IN  make_words_loop(parts, i + 1, r.word, r.out,
                                  Append(origin, [w |-> 0, off |-> 0]))
         ELSE IF IsHardBreak(particle)
         THEN make_words_loop(parts, i + 1, <<>>,
                  out \o hard_break_words(word, particle),
                  Append(origin, [w |-> Len(out) + 1, off |-> Len(word)]))
         ELSE make_words_loop(parts, i + 1, append_whole(word, particle), out,
                  Append(origin, [w |-> Len(out) + 1, off |-> Len(word)]))

make_words(parts) == make_words_loop(parts, 1, <<>>, <<>>, <<>>).words

make_words_origin(parts) == make_words_loop(parts, 1, <<>>, <<>>, <<>>).origin

\* A yielded line.  text is the string the code yields; widx (the indices
\* in the word list of the words put on the line) and hard (the line was
\* ended by a hard line break) are bookkeeping for the properties.
Line(text, widx, hard) == [text |-> text, widx |-> widx, hard |-> hard]

\* span_to_lines, "plain rendering: merge all particles and split on
\* newlines".  lines[1:-2] is, 1-based, the items 2 .. Len - 2.
RECURSIVE plain_loop(_, _, _, _)
plain_loop(parts, i, current_line, out) ==
    IF i > Len(parts)
    THEN IF current_line # <<>> THEN Append(out, Line(current_line, <<>>, FALSE))
         ELSE out
    ELSE LET text == parts[i].text IN
         IF \E k \in 1..Len(text) : text[k] = "\n"
         THEN LET ls == SplitOn(text, "\n", 1, <<>>)
                  inner == SubSeq(ls, 2, Len(ls) - 2)
              IN  plain_loop(parts, i + 1, ls[Len(ls)],
                      Append(out, Line(current_line \o ls[1], <<>>, FALSE))
                      \o [k \in 1..Len(inner) |-> Line(inner[k], <<>>, FALSE)])
         ELSE plain_loop(parts, i + 1, current_line \o text, out)

fits_without_space(test, width) == Len(test) - 1 <= width

fits_strictly(test, width) == Len(test) < width

\* span_to_lines: len(test) <= max_line_length
fits(test, width) == Len(test) <= width

test_line_unspaced(current_line, word) == current_line \o word

\* span_to_lines: test = current_line + " " + word.
test_line(current_line, word) == current_line \o <<" ">> \o word

\* span_to_lines, "render with word wrapping".
RECURSIVE wrap_loop(_, _, _, _, _, _)
wrap_loop(ws, i, width, current_line, widx, out) ==
    IF i > Len(ws)
    THEN IF current_line # <<>> THEN Append(out, Line(current_line, widx, FALSE))
         ELSE out
    ELSE LET word == ws[i] IN
         IF word = <<"\n">>
         THEN wrap_loop(ws, i + 1, width, <<>>, <<>>,
                        Append(out, Line(current_line, widx, TRUE)))
         ELSE IF current_line = <<>>
         THEN wrap_loop(ws, i + 1, width, word, <<i>>, out)
         ELSE LET test == test_line(current_line, word) IN
              IF fits(test, width)
              THEN wrap_loop(ws, i + 1, width, test, Append(widx, i), out)
              ELSE wrap_loop(ws, i + 1, width, word, <<i>>,
                             Append(out, Line(current_line, widx, FALSE)))

\* span_to_lines on the particles of the tokens.
particles_to_lines(parts, max_len) ==
    IF ~Truthy(max_len) THEN plain_loop(parts, 1, <<>>, <<>>)
    ELSE wrap_loop(make_words(parts), 1, max_len[1], <<>>, <<>>, <<>>)

span_to_lines(toks, max_len) == particles_to_lines(render_spans(toks), max_len)

\* The strings yielded.
Texts(ls) == [k \in 1..Len(ls) |-> ls[k].text]

----------------------------------------------------------------------------
(* Block tokens, as the renderer reads them. *)

Document(children) == [type |-> "Document", children |-> children]

Heading(level, children, closing_sequence) ==
    [type |-> "Heading", level |-> level, children |-> children,
     closing_sequence |-> closing_sequence]

SetextHeading(level, children, underline_length) ==
    [type |-> "SetextHeading", level |-> level, children |-> children,
     underline_length |-> underline_length]

Quote(children) == [type |-> "Quote", children |-> children]

Paragraph(children) == [type |-> "Paragraph", children |-> children]

BlockCode(content) == [type |-> "BlockCode", children |-> <<RawText(content)>>]

CodeFence(indentation, delimiter, info_string, content) ==
    [type |-> "CodeFence", indentation |-> indentation, delimiter |-> delimiter,
     info_string |-> info_string, children |-> <<RawText(content)>>]

List(children) == [type |-> "List", children |-> children]

ListItem(leader, children) ==
    [type |-> "ListItem", leader |-> leader, children |-> children]

TableCell(children) == [type |-> "TableCell", children |-> children]

TableRow(children) == [type |-> "TableRow", children |-> children]

\* column_align holds None (left or unspecified), 0 (centred) or 1 (right):
\* None, Some(0), Some(1).
Table(header, children, column_align) ==
    [type |-> "Table", header |-> header, children |-> children,
     column_align |-> column_align]

ThematicBreak(line) == [type |-> "ThematicBreak", line |-> line]

HTMLBlock(content) == [type |-> "HTMLBlock", content |-> content]

BlankLine == [type |-> "BlankLine"]

----------------------------------------------------------------------------
(* Rendering of block tokens into lines (markdown_renderer.py). *)

\* next(self.span_to_lines(children), ""): the first line, "" when none.
first_line(toks) ==
    LET ls == span_to_lines(toks, None)
    IN  IF ls = <<>> THEN <<>> ELSE ls[1].text

\* prefix_lines: a line that is all whitespace is yielded empty.
blank_if_space(l) == IF IsSpace(l) THEN <<>> ELSE l

\* prefix_lines; following_line_prefix "or" first_line_prefix: None and the
\* empty string both give the first prefix.
prefix_lines(ls, first_line_prefix, following_line_prefix) ==
    LET following == IF following_line_prefix = <<>> THEN first_line_prefix
                     ELSE following_line_prefix
    IN  [k \in 1..Len(ls) |->
            blank_if_space((IF k = 1 THEN first_line_prefix ELSE following)
                           \o ls[k])]

\* token.children[0].content[:-1].split("\n")
content_lines(token) ==
    LET content == token.children[1].content
    IN  SplitOn(SubSeq(content, 1, Len(content) - 1), "\n", 1, <<>>)

render_heading_wrapping(token, max_len) ==
    LET ls == span_to_lines(token.children, max_len)
        text == IF ls = <<>> THEN <<>> ELSE ls[1].text
    IN  << Repeat("#", token.level)
           \o (IF text # <<>> THEN <<" ">> \o text ELSE <<>>)
           \o (IF token.closing_sequence # <<>>
               THEN <<" ">> \o token.closing_sequence ELSE <<>>) >>

render_heading(token, max_len) ==
    LET text == first_line(token.children)
    IN  << Repeat("#", token.level)
           \o (IF text # <<>> THEN <<" ">> \o text ELSE <<>>)
           \o (IF token.closing_sequence # <<>>
               THEN <<" ">> \o token.closing_sequence ELSE <<>>) >>

render_setext_heading_resized(token, max_len) ==
    LET ls == Texts(span_to_lines(token.children, max_len))
    IN  ls \o << Repeat(IF token.level = 1 THEN "=" ELSE "-",
                        IF ls = <<>> THEN token.underline_length
                        ELSE Len(ls[Len(ls)])) >>

render_setext_heading(token, max_len) ==
    Texts(span_to_lines(token.children, max_len))
    \o << Repeat(IF token.level = 1 THEN "=" ELSE "-", token.underline_length) >>

render_paragraph(token, max_len) == Texts(span_to_lines(token.children, max_len))

render_block_code(token, max_len) ==
    prefix_lines(content_lines(token), <<" ", " ", " ", " ">>, None)

render_fenced_code_block(token, max_len) ==
    LET indentation == Repeat(" ", token.indentation)
    IN  << indentation \o token.delimiter \o token.info_string >>
        \o prefix_lines(content_lines(token), indentation, None)
        \o << indentation \o token.delimiter >>

render_thematic_break(token, max_len) == << token.line >>

render_html_block(token, max_len) == SplitOn(token.content, "\n", 1, <<>>)

render_blank_line(token, max_len) == << <<>> >>

\* table_row_to_text: the text of each cell of a row.
table_row_to_text(row) ==
    [c \in 1..Len(row.children) |-> first_line(row.children[c].children)]

MINIMUM_COLUMN_WIDTH == 3

Max(a, b) == IF a >= b THEN a ELSE b

widen_overwriting(col_widths, row) ==
    [index \in 1..Max(Len(col_widths), Len(row)) |->
        IF index <= Len(row) THEN Len(row[index]) ELSE col_widths[index]]

\* calculate_table_column_widths, one row: col_widths gets an entry of the
\* minimum width for every new column, then each entry is raised to the
\* length of the row's text.
widen(col_widths, row) ==
    [index \in 1..Max(Len(col_widths), Len(row)) |->
        LET before == IF index <= Len(col_widths) THEN col_widths[index]
                      ELSE MINIMUM_COLUMN_WIDTH
        IN  IF index <= Len(row) THEN Max(before, Len(row[index])) ELSE before]

RECURSIVE widths_loop(_, _, _)
widths_loop(col_text, r, col_widths) ==
    IF r > Len(col_text) THEN col_widths
    ELSE widths_loop(col_text, r + 1, widen(col_widths, col_text[r]))

calculate_table_column_widths(col_text) == widths_loop(col_text, 1, <<>>)

\* col_align[index] if index < len(col_align) else None
align_of(col_align, index) ==
    IF index <= Len(col_align) THEN col_align[index] ELSE None

separator_cell_colon_left(width, align) ==
    (IF align = Some(0) \/ align = None THEN <<":">> ELSE <<"-">>)
    \o Repeat("-", width - 2)
    \o (IF align = Some(0) \/ align = Some(1) THEN <<":">> ELSE <<"-">>)

\* table_separator_line_to_text, one column.
separator_cell(width, align) ==
    (IF align = Some(0) THEN <<":">> ELSE <<"-">>)
    \o Repeat("-", width - 2)
    \o (IF align = Some(0) \/ align = Some(1) THEN <<":">> ELSE <<"-">>)

table_separator_line_to_text(col_widths, col_align) ==
    [index \in 1..Len(col_widths) |->
        separator_cell(col_widths[index], align_of(col_align, index))]

padded_unpadded(text, width, align) == text

\* "{0: <{w}}", "{0: ^{w}}" and "{0: >{w}}".format(text, w=width): the text
\* padded with spaces to the width, never cut; centring puts the odd space
\* on the right.
padded(text, width, align) ==
    LET pad == Max(width - Len(text), 0)
        left == IF align = None THEN 0
                ELSE IF align = Some(0) THEN pad \div 2 ELSE pad
    IN  Repeat(" ", left) \o text \o Repeat(" ", pad - left)

\* " | ".join(padded_text)
RECURSIVE join_cells(_)
join_cells(cells) ==
    IF cells = <<>> THEN <<>>
    ELSE IF Len(cells) = 1 THEN cells[1]
    ELSE cells[1] \o <<" ", "|", " ">> \o join_cells(Tail(cells))

table_row_to_line(col_text, col_widths, col_align) ==
    <<"|", " ">>
    \o join_cells([index \in 1..Len(col_widths) |->
           padded(IF index <= Len(col_text) THEN col_text[index] ELSE <<>>,
                  col_widths[index], align_of(col_align, index))])
    \o <<" ", "|">>

\* render_table: content before the separator row is filled in.
table_content(token) ==
    << table_row_to_text(token.header), <<>> >>
    \o [r \in 1..Len(token.children) |-> table_row_to_text(token.children[r])]

render_table(token, max_len) ==
    LET content == table_content(token)
        col_widths == calculate_table_column_widths(content)
        filled == [content EXCEPT
                      ![2] = table_separator_line_to_text(col_widths,
                                                          token.column_align)]
    IN  [r \in 1..Len(filled) |->
            table_row_to_line(filled[r], col_widths, token.column_align)]

RECURSIVE render_block(_, _)
RECURSIVE blocks_to_lines(_, _)

render_document(token, max_len) == blocks_to_lines(token.children, max_len)

\* render_quote.  blocks_to_lines returns a generator, which is true even
\* when it yields nothing, so that 'lines or [""]' is always lines.
render_quote(token, max_len) ==
    LET max_child_line_length ==
            IF Truthy(max_len) THEN Some(max_len[1] - 2) ELSE None
    IN  prefix_lines(blocks_to_lines(token.children, max_child_line_length),
                     <<">", " ">>, None)

render_list(token, max_len) == blocks_to_lines(token.children, max_len)

render_list_item_leader_width(token, max_len) ==
    LET indentation == Len(token.leader)
        max_child_line_length ==
            IF Truthy(max_len) THEN Some(max_len[1] - indentation - 1) ELSE None
        ls == blocks_to_lines(token.children, max_child_line_length)
    IN  prefix_lines(IF ls = <<>> THEN << <<>> >> ELSE ls,
                     token.leader \o <<" ">>, Repeat(" ", indentation))

\* render_list_item: 'list(lines) or [""]' is [""] when there are no lines.
render_list_item(token, max_len) ==
    LET indentation == Len(token.leader) + 1
        max_child_line_length ==
            IF Truthy(max_len) THEN Some(max_len[1] - indentation) ELSE None
        ls == blocks_to_lines(token.children, max_child_line_length)
    IN  prefix_lines(IF ls = <<>> THEN << <<>> >> ELSE ls,
                     token.leader \o <<" ">>, Repeat(" ", indentation))

\* LinkReferenceDefinitionBlock.__init__: one child for each match.
LinkReferenceDefinitionBlock(children) ==
    [type |-> "LinkReferenceDefinitionBlock", children |-> children]

render_link_reference_definition_block_joined(token, max_len) ==
    Texts(span_to_lines(token.children, max_len))

\* render_link_reference_definition_block: span_to_lines for each child.
render_link_reference_definition_block(token, max_len) ==
    Chain([k \in 1..Len(token.children) |->
              Texts(span_to_lines(<<token.children[k]>>, max_len))])

\* self.render_map[token.__class__.__name__](token, max_line_length=...)
render_block(token, max_len) ==
    CASE token.type = "Document" -> render_document(token, max_len)
      [] token.type = "Heading" -> render_heading(token, max_len)
      [] token.type = "SetextHeading" -> render_setext_heading(token, max_len)
      [] token.type = "Quote" -> render_quote(token, max_len)
      [] token.type = "Paragraph" -> render_paragraph(token, max_len)
      [] token.type = "BlockCode" -> render_block_code(token, max_len)
      [] token.type = "CodeFence" -> render_fenced_code_block(token, max_len)
      [] token.type = "List" -> render_list(token, max_len)
      [] token.type = "ListItem" -> render_list_item(token, max_len)
      [] token.type = "Table" -> render_table(token, max_len)
      [] token.type = "ThematicBreak" -> render_thematic_break(token, max_len)
      [] token.type = "HTMLBlock" -> render_html_block(token, max_len)
      [] token.type = "BlankLine" -> render_blank_line(token, max_len)
      [] token.type = "LinkReferenceDefinitionBlock" ->
             render_link_reference_definition_block(token, max_len)

blocks_to_lines(toks, max_len) ==
    IF toks = <<>> THEN <<>>
    ELSE render_block(Head(toks), max_len) \o blocks_to_lines(Tail(toks), max_len)

----------------------------------------------------------------------------
(* The span tokens the model renders. *)

SpanVocabulary ==
    { RawText(<<"a">>),
      RawText(<<"b", "b", " ", "c">>),
      LineBreak(<<>>),
      LineBreak(<<"\\">>),
      LineBreak(<<" ", " ">>),
      InlineCode(<<Backtick>>, <<"p", " ", "q">>),
      InlineCode(<<Backtick, Backtick>>, <<"r", "\n", "s", "\n", "t">>),
      Strong(<<"_">>, <<Emphasis(<<"*">>, <<RawText(<<"x", " ", "y">>)>>)>>),
      Emphasis(<<"_">>, <<Strong(<<"*">>, <<RawText(<<"z">>)>>), EscapeSequence("*")>>),
      Link(<<HTMLSpan(<<"<", "i", " ", "j", ">">>)>>, <<"u", " ", "v">>,
           <<"w", " ", "x">>, Some("angle_uri"), None, <<"'">>) }

----------------------------------------------------------------------------
(* Spec: MarkdownRenderer.render on a sequence of span tokens               *)
(* (render -> span_to_lines), with and without max_line_length.            *)

Init ==
    /\ tokens \in SeqsUpTo(SpanVocabulary, MaxTokens)
    /\ max_line_length \in {None} \cup {Some(n) : n \in 1..MaxLineLength}
    /\ pc = "start"
    /\ RegistryInit
    /\ particles = <<>>
    /\ words = <<>>
    /\ lines = <<>>
    /\ tbl_content = <<>>
    /\ tbl_widths = <<>>
    /\ source = <<>>
    /\ rendered = <<>>

\* span_to_lines: the particles of the tokens.
Flatten ==
    /\ pc = "start"
    /\ particles' = render_spans(tokens)
    /\ pc' = "flattened"
    /\ UNCHANGED registry_vars
    /\ UNCHANGED <<tokens, max_line_length, words, lines, tbl_content, tbl_widths, source, rendered>>

\* span_to_lines without max_line_length.
RenderPlain ==
    /\ pc = "flattened"
    /\ ~Truthy(max_line_length)
    /\ lines' = particles_to_lines(particles, max_line_length)
    /\ pc' = "done"
    /\ UNCHANGED registry_vars
    /\ UNCHANGED <<tokens, max_line_length, particles, words, tbl_content, tbl_widths, source, rendered>>

\* span_to_lines with max_line_length.
RenderWrapped ==
    /\ pc = "flattened"
    /\ Truthy(max_line_length)
    /\ words' = make_words(particles)
    /\ lines' = particles_to_lines(particles, max_line_length)
    /\ pc' = "done"
    /\ UNCHANGED registry_vars
    /\ UNCHANGED <<tokens, max_line_length, particles, tbl_content, tbl_widths, source, rendered>>

Next == Flatten \/ RenderPlain \/ RenderWrapped

Spec == Init /\ [][Next]_vars

----------------------------------------------------------------------------
(* SpecBlock: MarkdownRenderer.render on a document: a block nested in      *)
(* block quotes and list items.                                            *)

Paragraphs ==
    { Paragraph(<<RawText(<<"b", "b", " ", "c">>)>>),
      Paragraph(<<RawText(<<"a">>), LineBreak(<<>>),
                  RawText(<<"b", "b", " ", "c">>), LineBreak(<<"\\">>),
                  InlineCode(<<Backtick>>, <<"p", " ", "q">>),
                  RawText(<<" ", "a">>)>>) }

TableRows ==
    { TableRow(<<TableCell(<<RawText(<<"x">>)>>)>>),
      TableRow(<<TableCell(<<Emphasis(<<"*">>, <<RawText(<<"h", "i">>)>>)>>),
                 TableCell(<<>>)>>),
      TableRow(<<TableCell(<<RawText(<<"x">>)>>),
                 TableCell(<<RawText(<<"a", "b", " ", "d", "e">>)>>),
                 TableCell(<<RawText(<<"x">>)>>)>>),
      TableRow(<<TableCell(<<>>), TableCell(<<RawText(<<"x", "y">>)>>)>>),
      TableRow(<<TableCell(<<RawText(<<"a", "b", "c", "d", "e", "f">>)>>)>>) }

ColumnAligns ==
    { <<None>>, <<Some(0)>>, <<Some(0), Some(1)>>, <<Some(1), None, Some(0)>> }

Tables ==
    { Table(header, rows, column_align) :
        header \in TableRows, rows \in SeqsUpTo(TableRows, MaxRows),
        column_align \in ColumnAligns }

UnwrappedBlocks ==
    { Heading(2, <<Emphasis(<<"*">>, <<RawText(<<"x", " ", "y">>)>>),
                   RawText(<<" ", "a">>)>>, <<"#", "#">>),
      Heading(3, <<>>, <<>>),
      BlockCode(<<"x", " ", " ", "y", " ", "\n", " ", "z", "\n">>),
      CodeFence(2, <<"~", "~", "~">>, <<"p", "y">>,
                <<"x", " ", "y", " ", "z", "\n">>),
      Table(TableRow(<<TableCell(<<RawText(<<"x">>)>>),
                       TableCell(<<RawText(<<"a", "b", " ", "d", "e">>)>>)>>),
            <<TableRow(<<TableCell(<<RawText(<<"a", " ", "b">>)>>)>>)>>,
            <<None, Some(1)>>),
      ThematicBreak(<<"*", " ", "*", " ", "*">>),
      HTMLBlock(<<"<", "p", ">", "\n", "q", " ", "r">>),
      BlankLine }

Containers(child) ==
    { Quote(<<child>>),
      List(<<ListItem(<<"-">>, <<child>>)>>),
      List(<<ListItem(<<"1", "2", ")">>, <<child>>)>>) }

RECURSIVE Nested(_)
Nested(depth) ==
    IF depth = 0 THEN Paragraphs \cup UnwrappedBlocks
    ELSE Nested(depth - 1) \cup UNION {Containers(b) : b \in Nested(depth - 1)}

InitBlock ==
    /\ tokens \in {<<b>> : b \in Nested(MaxDepth)}
    /\ max_line_length \in {None} \cup {Some(n) : n \in 1..MaxWidth}
    /\ pc = "start"
    /\ RegistryInit
    /\ particles = <<>>
    /\ words = <<>>
    /\ lines = <<>>
    /\ tbl_content = <<>>
    /\ tbl_widths = <<>>
    /\ source = <<>>
    /\ rendered = <<>>

\* render(Document, max_line_length): the lines of the document.
RenderDocument ==
    /\ pc = "start"
    /\ lines' = render_block(Document(tokens), max_line_length)
    /\ pc' = "done"
    /\ UNCHANGED registry_vars
    /\ UNCHANGED <<tokens, max_line_length, particles, words, tbl_content, tbl_widths, source, rendered>>

NextBlock == RenderDocument

SpecBlock == InitBlock /\ [][NextBlock]_vars

----------------------------------------------------------------------------
(* SpecTable: render_table on a table.                                     *)

InitTable ==
    /\ tokens \in {<<t>> : t \in Tables}
    /\ max_line_length = None
    /\ pc = "start"
    /\ RegistryInit
    /\ particles = <<>>
    /\ words = <<>>
    /\ lines = <<>>
    /\ tbl_content = <<>>
    /\ tbl_widths = <<>>
    /\ source = <<>>
    /\ rendered = <<>>

\* render_table: content, col_widths, content[1] (the separator), the lines.
RenderTable ==
    /\ pc = "start"
    /\ tbl_widths' = calculate_table_column_widths(table_content(tokens[1]))
    /\ tbl_content' = [table_content(tokens[1]) EXCEPT
                          ![2] = table_separator_line_to_text(
                                     tbl_widths', tokens[1].column_align)]
    /\ lines' = render_table(tokens[1], max_line_length)
    /\ pc' = "done"
    /\ UNCHANGED registry_vars
    /\ UNCHANGED <<tokens, max_line_length, particles, words, source, rendered>>

NextTable == RenderTable

SpecTable == InitTable /\ [][NextTable]_vars

----------------------------------------------------------------------------
(* Parsing of a one-paragraph document.  The block tokenizer and the span   *)
(* tokenizer are not part of the sources at hand: they are modelled from    *)
(* the specification (sections 4.2 and 4.3) for documents made of words,    *)
(* spaces, line breaks and code spans, with the patterns and constructors   *)
(* of span_token.py.                                                       *)

\* The number of backticks from position i on.
RECURSIVE RunLength(_, _)
RunLength(s, i) ==
    IF i <= Len(s) /\ s[i] = Backtick THEN 1 + RunLength(s, i + 1) ELSE 0

\* InlineCode.pattern for an opening run of n backticks at position i: the
\* start of the closing run, the first later run of exactly n backticks after
\* at least one character; 0 when there is none.
ClosingRun(s, i, n) ==
    LET starts == {j \in (i + n + 1)..Len(s) :
                      s[j] = Backtick /\ s[j - 1] # Backtick /\ RunLength(s, j) = n}
    IN  IF starts = {} THEN 0 ELSE CHOOSE j \in starts : \A k \in starts : j <= k

\* The number of spaces from position i on.
RECURSIVE SpaceRun(_, _)
SpaceRun(s, i) ==
    IF i <= Len(s) /\ s[i] = " " THEN 1 + SpaceRun(s, i + 1) ELSE 0

\* LineBreak.pattern, ( *|\\)\n, at position i: the length of the marker, -1
\* when the pattern does not match there.
BreakMarkerLength(s, i) ==
    IF s[i] = "\\" /\ i < Len(s) /\ s[i + 1] = "\n" THEN 1
    ELSE LET n == SpaceRun(s, i)
         IN  IF i + n <= Len(s) /\ s[i + n] = "\n" THEN n ELSE -1

\* Text between two tokens becomes a RawText.
WithRaw(out, raw) == IF raw = <<>> THEN out ELSE Append(out, RawText(raw))

\* The span tokenizer: code spans first, then line breaks, the rest raw text.
RECURSIVE tokenize_loop(_, _, _, _)
tokenize_loop(s, i, raw, out) ==
    IF i > Len(s) THEN WithRaw(out, raw)
    ELSE IF s[i] = Backtick
    THEN LET n == RunLength(s, i)
             close == ClosingRun(s, i, n)
         IN  IF close = 0
             THEN tokenize_loop(s, i + n, raw \o SubSeq(s, i, i + n - 1), out)
             ELSE tokenize_loop(s, close + n, <<>>,
                      Append(WithRaw(out, raw),
                             InlineCode(SubSeq(s, i, i + n - 1),
                                        SubSeq(s, i + n, close - 1))))
    ELSE IF BreakMarkerLength(s, i) >= 0
    THEN LET n == BreakMarkerLength(s, i)
         IN  tokenize_loop(s, i + n + 1, <<>>,
                 Append(WithRaw(out, raw), LineBreak(SubSeq(s, i, i + n - 1))))
    ELSE tokenize_loop(s, i + 1, Append(raw, s[i]), out)

tokenize_inner(text) == tokenize_loop(text, 1, <<>>, <<>>)

\* Document(lines) for lines that form one paragraph: the paragraph's content
\* is the text without the final line end.
parse_document(text) ==
    Document(<<Paragraph(tokenize_inner(
        IF EndsWith(text, <<"\n">>) THEN SubSeq(text, 1, Len(text) - 1) ELSE text))>>)

\* render: "".join(map(lambda line: line + "\n", lines))
RECURSIVE join_lines(_)
join_lines(ls) ==
    IF ls = <<>> THEN <<>> ELSE Head(ls) \o <<"\n">> \o join_lines(Tail(ls))

render(token, max_len) == join_lines(render_block(token, max_len))

----------------------------------------------------------------------------
(* SpecDoc: parse a one-paragraph document and render it back              *)
(* (TestMarkdownRenderer.roundtrip).                                       *)

DocPieces == { <<"a">>, <<" ">>, <<"\n">>, <<Backtick>> }

\* One paragraph of words, spaces, line breaks and code spans: it neither
\* starts nor ends with whitespace, no line starts with whitespace (no blank
\* or indented line), and it holds no run of three backticks (no code fence).
OneParagraph(text) ==
    /\ text # <<>>
    /\ ~IsSpaceChar(text[1]) /\ ~IsSpaceChar(text[Len(text)])
    /\ \A i \in 1..(Len(text) - 1) : text[i] = "\n" => ~IsSpaceChar(text[i + 1])
    /\ \A i \in 1..Len(text) : RunLength(text, i) < 3

InitDoc ==
    /\ \E pieces \in SeqsUpTo(DocPieces, MaxPieces), final \in {<<>>, <<"\n">>} :
           /\ OneParagraph(Chain(pieces))
           /\ source = Chain(pieces) \o final
    /\ max_line_length = None
    /\ pc = "start"
    /\ RegistryInit
    /\ tokens = <<>>
    /\ particles = <<>>
    /\ words = <<>>
    /\ lines = <<>>
    /\ tbl_content = <<>>
    /\ tbl_widths = <<>>
    /\ rendered = <<>>

\* Document(input)
ParseDocument ==
    /\ pc = "start"
    /\ tokens' = <<parse_document(source)>>
    /\ pc' = "parsed"
    /\ UNCHANGED registry_vars
    /\ UNCHANGED <<max_line_length, particles, words, lines, tbl_content,
                   tbl_widths, source, rendered>>

\* renderer.render(document)
RenderParsed ==
    /\ pc = "parsed"
    /\ lines' = render_block(tokens[1], max_line_length)
    /\ rendered' = render(tokens[1], max_line_length)
    /\ pc' = "done"
    /\ UNCHANGED registry_vars
    /\ UNCHANGED <<tokens, max_line_length, particles, words, tbl_content,
                   tbl_widths, source>>

NextDoc == ParseDocument \/ RenderParsed

SpecDoc == InitDoc /\ [][NextDoc]_vars

----------------------------------------------------------------------------
(* Properties of Spec. *)

Reflowed == pc = "done" /\ Truthy(max_line_length)

Preserved == pc = "done" /\ ~Truthy(max_line_length)

\* C1: in reflow mode every yielded line is at most max_line_length long,
\* unless it consists of exactly one word of make_words.
C1_ReflowWidthBound ==
    Reflowed =>
        \A k \in 1..Len(lines) :
            \/ Len(lines[k].text) <= max_line_length[1]
            \/ Len(lines[k].widx) = 1

\* C1 witness: a reflowed paragraph with a line of several words and a line
\* that is one word longer than max_line_length.
C1_Witness ==
    /\ Reflowed
    /\ \E k \in 1..Len(lines) : Len(lines[k].widx) >= 2
    /\ \E k \in 1..Len(lines) :
           Len(lines[k].widx) = 1 /\ Len(lines[k].text) > max_line_length[1]

HardParticles == SelectSeq(particles, IsHardBreak)

HardLines == SelectSeq(lines, LAMBDA l : l.hard)

\* C3: in reflow mode every hard line break ends a line: the line ends with
\* the break's marker, and no line holds words from both sides of a break.
C3_HardBreakPreserved ==
    Reflowed =>
        /\ Len(HardLines) = Len(HardParticles)
        /\ \A j \in 1..Len(HardParticles) :
               /\ j <= Len(HardLines)
               /\ EndsWith(HardLines[j].text,
                           SubSeq(HardParticles[j].text, 1,
                                  Len(HardParticles[j].text) - 1))
        /\ \A k \in 1..Len(lines) :
               \A a, b \in 1..Len(lines[k].widx) :
                   \A i \in lines[k].widx[a]..lines[k].widx[b] :
                       words[i] # <<"\n">>

\* C3 witness: a reflowed paragraph with words before and after a hard line
\* break, wide enough for the words around the break to share a line.
C3_Witness ==
    /\ Reflowed
    /\ \E i \in 2..(Len(words) - 1) :
           /\ words[i] = <<"\n">>
           /\ Len(words[i - 1]) + Len(words[i + 1]) + 1 <= max_line_length[1]

\* The particles that are not wrap-eligible.
IsAtomic(particle) ==
    \/ particle.token \in {"InlineCode", "HTMLSpan", "AutoLink", "EscapeSequence"}
    \/ particle.tag = Some("dest_part")

\* The offset in a line's text of the word at position pos of the line.
RECURSIVE OffsetInLine(_, _)
OffsetInLine(widx, pos) ==
    IF pos = 1 THEN 0
    ELSE OffsetInLine(widx, pos - 1) + Len(words[widx[pos - 1]]) + 1

\* C4: in reflow mode the text of every particle that is not wrap-eligible is
\* found whole in one word of make_words, and that word whole in one line.
C4_Atomicity ==
    Reflowed =>
        \A i \in 1..Len(particles) :
            IsAtomic(particles[i]) =>
                LET o == make_words_origin(particles)[i]
                    text == particles[i].text
                IN  /\ o.w \in 1..Len(words)
                    /\ SubSeq(words[o.w], o.off + 1, o.off + Len(text)) = text
                    /\ \E k \in 1..Len(lines) :
                           \E pos \in 1..Len(lines[k].widx) :
                               /\ lines[k].widx[pos] = o.w
                               /\ SubSeq(lines[k].text,
                                         OffsetInLine(lines[k].widx, pos) + 1,
                                         OffsetInLine(lines[k].widx, pos)
                                             + Len(words[o.w]))
                                      = words[o.w]

\* C4 witness: a reflowed paragraph with an atomic particle that holds a
\* space and is longer than max_line_length.
C4_Witness ==
    /\ Reflowed
    /\ \E i \in 1..Len(particles) :
           /\ IsAtomic(particles[i])
           /\ Len(particles[i].text) > max_line_length[1]
           /\ \E c \in 1..Len(particles[i].text) : particles[i].text[c] = " "

\* The lines of a text: split at newlines, a final empty line omitted.
LinesOfText(text) ==
    LET ls == SplitOn(text, "\n", 1, <<>>)
    IN  IF ls[Len(ls)] = <<>> THEN SubSeq(ls, 1, Len(ls) - 1) ELSE ls

\* C6: without max_line_length the yielded lines are the lines of the
\* concatenated particle texts.
C6_PlainKeepsAllText ==
    Preserved =>
        Texts(lines) =
            LinesOfText(Chain([i \in 1..Len(particles) |-> particles[i].text]))

\* The tokens of a sequence and all their descendants.
RECURSIVE Descendants(_)
Descendants(toks) ==
    IF toks = <<>> THEN {}
    ELSE LET t == Head(toks)
         IN  {t} \cup Descendants(Tail(toks))
                 \cup (IF t.type \in {"Strong", "Emphasis", "Strikethrough",
                                      "Link", "Image"}
                       THEN Descendants(t.children) ELSE {})

\* C10: the particles of a Strong (Emphasis) token are the token's own
\* delimiter character twice (once), the particles of the children in order,
\* and the same delimiter again, at every nesting depth.
C10_EmphasisDelimiters ==
    pc # "start" =>
        \A t \in Descendants(tokens) :
            t.type \in {"Strong", "Emphasis"} =>
                LET ps == render_span(t)
                    run == IF t.type = "Strong" THEN t.delimiter \o t.delimiter
                           ELSE t.delimiter
                IN  /\ Len(ps) >= 2
                    /\ ps[1].text = run /\ ps[Len(ps)].text = run
                    /\ SubSeq(ps, 2, Len(ps) - 1) = render_spans(t.children)
                    /\ \E a \in 0..Len(particles) :
                           SubSeq(particles, a + 1, a + Len(ps)) = ps

\* C10 witness: a Strong with the underscore delimiter inside or around an
\* Emphasis with the other delimiter has been rendered.
C10_Witness ==
    /\ pc = "done"
    /\ \E t \in Descendants(tokens) :
           /\ t.type = "Strong" /\ t.delimiter = <<"_">>
           /\ \E c \in Descendants(t.children) :
                  c.type = "Emphasis" /\ c.delimiter = <<"*">>
    /\ \E t \in Descendants(tokens) :
           /\ t.type = "Emphasis" /\ t.delimiter = <<"_">>
           /\ \E c \in Descendants(t.children) :
                  c.type = "Strong" /\ c.delimiter = <<"*">>

----------------------------------------------------------------------------
(* Properties of SpecBlock. *)

\* The block inside the containers of a nested block.
RECURSIVE InnerBlock(_)
InnerBlock(b) ==
    IF b.type \in {"Quote", "List", "ListItem"} /\ b.children # <<>>
    THEN InnerBlock(b.children[1]) ELSE b

\* The width of the prefixes of the containers around the inner block: 2
\* for a quote, len(leader) + 1 for a list item.
RECURSIVE PrefixWidth(_)
PrefixWidth(b) ==
    IF b.type \in {"Quote", "List", "ListItem"} /\ b.children # <<>>
    THEN PrefixWidth(b.children[1])
         + (CASE b.type = "Quote" -> 2
              [] b.type = "ListItem" -> Len(b.leader) + 1
              [] OTHER -> 0)
    ELSE 0

\* C2: with max_line_length = N >= 1, every line of a paragraph nested in
\* block quotes and list items, prefixes included, is at most N long unless
\* the paragraph text on it is a single word.
C2_ContainerBudget ==
    (pc = "done" /\ Truthy(max_line_length)
        /\ InnerBlock(tokens[1]).type = "Paragraph") =>
        LET ws == make_words(render_spans(InnerBlock(tokens[1]).children))
            pw == PrefixWidth(tokens[1])
        IN  \A k \in 1..Len(lines) :
                \/ Len(lines[k]) <= max_line_length[1]
                \/ \E i \in 1..Len(ws) :
                       SubSeq(lines[k], pw + 1, Len(lines[k])) = ws[i]

UnwrappedTypes ==
    {"Heading", "BlockCode", "CodeFence", "Table", "ThematicBreak",
     "HTMLBlock", "BlankLine"}

\* C9: the lines of an ATX heading, an indented or fenced code block, a
\* table, a thematic break, an HTML block and a blank line are the same for
\* every max_line_length as with none.
C9_UnwrappedBlocksUnchanged ==
    (pc = "done" /\ InnerBlock(tokens[1]).type \in UnwrappedTypes) =>
        lines = blocks_to_lines(tokens, None)

\* C9 witness: such a block rendered with a max_line_length that one of its
\* lines, which holds a space, exceeds.
C9_Witness ==
    /\ pc = "done" /\ Truthy(max_line_length)
    /\ tokens[1].type \in {"Heading", "Table"}
    /\ \E k \in 1..Len(lines) :
           /\ Len(lines[k]) > max_line_length[1]
           /\ \E c \in 2..(Len(lines[k]) - 1) :
                  lines[k][c] = " " /\ lines[k][c - 1] # " " /\ lines[k][c + 1] # " "

----------------------------------------------------------------------------
(* Properties of SpecTable. *)

\* The texts of the header row and of the body rows.
CellRows == <<tbl_content[1]>> \o SubSeq(tbl_content, 3, Len(tbl_content))

MaxOf(S) == CHOOSE m \in S : \A x \in S : m >= x

\* C7: a table has as many columns as its longest row has cells, and the
\* width of a column is max(3, the greatest length of a text in the column).
C7_TableColumnWidths ==
    pc = "done" =>
        /\ Len(tbl_widths) = MaxOf({Len(CellRows[r]) : r \in 1..Len(CellRows)})
        /\ \A c \in 1..Len(tbl_widths) :
               tbl_widths[c] =
                   MaxOf({3} \cup {Len(CellRows[r][c]) :
                              r \in {q \in 1..Len(CellRows) : c <= Len(CellRows[q])}})

\* C7 witness: a table whose rows differ in the number of cells, with a
\* column of short texts and a column with a text longer than 3.
C7_Witness ==
    /\ pc = "done"
    /\ \E r, q \in 1..Len(CellRows) : Len(CellRows[r]) < Len(CellRows[q])
    /\ \E c \in 1..Len(tbl_widths) :
           /\ tbl_widths[c] = 3
           /\ \A r \in 1..Len(CellRows) :
                  c <= Len(CellRows[r]) => Len(CellRows[r][c]) < 3
    /\ \E c \in 1..Len(tbl_widths) : tbl_widths[c] > 3

Dashes(cell, from, to) == \A i \in from..to : cell[i] = "-"

\* C8: the separator cell of a column of width w is w characters: dashes for
\* a column without alignment, colon dashes colon for a centred column,
\* dashes colon for a right-aligned one; it starts with a colon only when it
\* also ends with one.
C8_SeparatorCells ==
    pc = "done" =>
        /\ Len(tbl_content[2]) = Len(tbl_widths)
        /\ \A c \in 1..Len(tbl_widths) :
               LET w == tbl_widths[c]
                   cell == tbl_content[2][c]
                   align == IF c <= Len(tokens[1].column_align)
                            THEN tokens[1].column_align[c] ELSE None
               IN  /\ w >= 3
                   /\ Len(cell) = w
                   /\ align = None => Dashes(cell, 1, w)
                   /\ align = Some(0) =>
                          cell[1] = ":" /\ Dashes(cell, 2, w - 1) /\ cell[w] = ":"
                   /\ align = Some(1) => Dashes(cell, 1, w - 1) /\ cell[w] = ":"
                   /\ cell[1] = ":" => cell[w] = ":"

\* C8 witness: a table with a centred, a right-aligned and an unaligned
\* column, or with more columns than alignments.
C8_Witness ==
    /\ pc = "done"
    /\ Len(tbl_widths) > Len(tokens[1].column_align)
    /\ \E c \in 1..Len(tokens[1].column_align) : tokens[1].column_align[c] = Some(0)
    /\ \E c \in 1..Len(tokens[1].column_align) : tokens[1].column_align[c] = Some(1)
    /\ \E c \in 1..Len(tbl_widths) : tbl_widths[c] > 3

----------------------------------------------------------------------------
(* Properties of SpecDoc. *)

\* C5: parsing a document and rendering it without max_line_length gives the
\* document back, a final newline added when it had none.
C5_RoundTrip ==
    pc = "done" =>
        rendered = IF EndsWith(source, <<"\n">>) THEN source
                   ELSE source \o <<"\n">>

----------------------------------------------------------------------------
(* SpecInline: MarkdownRenderer.render on one link, image or code span, or  *)
(* on a line break between two words.                                      *)

MaxContent == 3

DestTypes ==
    { Some("uri"), Some("angle_uri"), Some("full"), Some("collapsed"),
      Some("shortcut") }

TitleDelimiters == { <<"\"">>, <<"'">>, <<"(">> }

\* The fields of a link match: a title delimiter with the title of an inline
\* link, a label with a full reference; the title of a reference link comes
\* from its definition.  A match without dest_type gives None.
LinkFields ==
    { [dest_type |-> d, title |-> <<>>, title_delimiter |-> None, label |-> None] :
          d \in {Some("uri"), Some("angle_uri")} }
    \cup { [dest_type |-> d, title |-> <<"w", " ", "x">>, title_delimiter |-> q,
            label |-> None] :
              d \in {Some("uri"), Some("angle_uri")}, q \in TitleDelimiters }
    \cup { [dest_type |-> Some("full"), title |-> t, title_delimiter |-> None,
            label |-> <<"l", " ", "m">>] : t \in {<<>>, <<"w", " ", "x">>} }
    \cup { [dest_type |-> d, title |-> t, title_delimiter |-> None, label |-> None] :
              d \in {Some("collapsed"), Some("shortcut"), None},
              t \in {<<>>, <<"w", " ", "x">>} }

LinkCases ==
    { [tokens |-> <<Link(<<RawText(<<"a">>)>>, <<"u">>, f.title, f.dest_type,
                         f.label, f.title_delimiter)>>,
       source |-> <<>>] : f \in LinkFields }
    \cup
    { [tokens |-> <<Image(<<RawText(<<"a">>)>>, <<"u">>, f.title, f.dest_type,
                          f.label, f.title_delimiter)>>,
       source |-> <<>>] : f \in LinkFields }

\* A code span as InlineCode.pattern matches it: a backtick run, a content
\* that is not empty, the same run.
CodeCases ==
    { [tokens |-> <<InlineCode(d, c)>>, source |-> d \o c \o d] :
          d \in {<<Backtick>>, <<Backtick, Backtick>>},
          c \in SeqsUpTo({"a", " ", "\n"}, MaxContent) \ {<<>>} }

\* The markers LineBreak.pattern matches: a run of spaces or a backslash.
BreakMarkers == { Repeat(" ", n) : n \in 0..MaxContent } \cup { <<"\\">> }

BreakCases ==
    { [tokens |-> <<RawText(<<"a">>), LineBreak(m), RawText(<<"b">>)>>,
       source |-> <<"a">> \o m \o <<"\n", "b">>] : m \in BreakMarkers }

InitInline ==
    /\ \E case \in LinkCases \cup CodeCases \cup BreakCases :
           /\ tokens = case.tokens
           /\ source = case.source
    /\ max_line_length \in {None} \cup {Some(n) : n \in 1..MaxLineLength}
    /\ pc = "start"
    /\ RegistryInit
    /\ particles = <<>>
    /\ words = <<>>
    /\ lines = <<>>
    /\ tbl_content = <<>>
    /\ tbl_widths = <<>>
    /\ rendered = <<>>

SpecInline == InitInline /\ [][Next]_vars

----------------------------------------------------------------------------
(* Properties of SpecInline. *)

\* The texts of the particles, joined.
ParticleText(parts) == Chain([k \in 1..Len(parts) |-> parts[k].text])

IsLinkOrImage(token) == token.type \in {"Link", "Image"}

\* What follows "[" children "]" for each of the five kinds of destination.
Destination(token, target) ==
    LET closer == IF token.title_delimiter = <<"(">> THEN <<")">>
                  ELSE token.title_delimiter
        titled == IF token.title = <<>> THEN <<>>
                  ELSE <<" ">> \o token.title_delimiter \o token.title \o closer
    IN  CASE token.dest_type = Some("uri") ->
                 <<"(">> \o target \o titled \o <<")">>
          [] token.dest_type = Some("angle_uri") ->
                 <<"(", "<">> \o target \o <<">">> \o titled \o <<")">>
          [] token.dest_type = Some("full") -> <<"[">> \o token.label \o <<"]">>
          [] token.dest_type = Some("collapsed") -> <<"[", "]">>
          [] token.dest_type = Some("shortcut") -> <<>>

LinkText(token) ==
    (IF token.type = "Image" THEN <<"!", "[">> ELSE <<"[">>)
    \o ParticleText(render_spans(token.children)) \o <<"]">>
    \o Destination(token, IF token.type = "Image" THEN token.src ELSE token.target)

\* C11: a Link or Image with one of the five kinds of destination renders as
\* "[" (or "![") children "]" followed by "(" target [" " delimiter title
\* closer] ")" for uri, the same with "<" target ">" for angle_uri,
\* "[" label "]" for full, "[]" for collapsed and nothing for shortcut; the
\* title is emitted only when it is not empty, and the closer is ")" for the
\* delimiter "(" and the delimiter itself otherwise.
C11_LinkDestTypes ==
    (pc # "start" /\ IsLinkOrImage(tokens[1]) /\ tokens[1].dest_type \in DestTypes)
    => /\ ParticleText(particles) = LinkText(tokens[1])
       /\ Preserved => Texts(lines) = <<LinkText(tokens[1])>>

C11_Witness ==
    /\ Preserved
    /\ tokens[1].type = "Image"
    /\ tokens[1].dest_type = Some("angle_uri")
    /\ tokens[1].title_delimiter = <<"(">>
    /\ lines # <<>>

\* C12: rendering a Link or Image whose dest_type is none of the five kinds
\* (None, for a match without dest_type) aborts: no particles and no lines
\* are ever produced for it.
C12_UnknownDestTypeAborts ==
    (IsLinkOrImage(tokens[1]) /\ tokens[1].dest_type \notin DestTypes)
    => pc = "start"

IsCodeSpan == Len(tokens) = 1 /\ tokens[1].type = "InlineCode"

\* C13: for an InlineCode token both modes reproduce, between the
\* delimiters, the stripped content (the content of the child RawText: one
\* leading and one trailing padding space removed unless the content is all
\* whitespace), not the content as typed.
C13_StrippedContentRendered ==
    (pc # "start" /\ IsCodeSpan)
    => ParticleText(particles)
           = tokens[1].delimiter \o tokens[1].children[1].content
                 \o tokens[1].delimiter

\* The content of a code span with its newlines replaced by spaces.
Unfolded(content) ==
    [i \in 1..Len(content) |-> IF content[i] = "\n" THEN " " ELSE content[i]]

IsPadded(content) ==
    /\ \E i \in 1..Len(content) : content[i] # " "
    /\ content[1] = " "
    /\ content[Len(content)] = " "

\* C14: a code span round-trips with its padding.  The token keeps the
\* backtick run and the content exactly as matched; only the child RawText
\* has newlines replaced by spaces and, when the content has a space on both
\* sides and is not all whitespace, one space removed on each side; the
\* particles are delimiter, raw_content, delimiter, which without
\* max_line_length gives back the source of a span on one line.
C14_CodeSpanRoundTrip ==
    (pc # "start" /\ IsCodeSpan)
    => LET n == RunLength(source, 1)
           token == tokens[1]
           unfolded == Unfolded(token.raw_content)
       IN  /\ token.delimiter = SubSeq(source, 1, n)
           /\ token.raw_content = SubSeq(source, n + 1, Len(source) - n)
           /\ token.children[1].content
                  = IF IsPadded(unfolded)
                    THEN SubSeq(unfolded, 2, Len(unfolded) - 1) ELSE unfolded
           /\ ParticleText(particles) = source
           /\ (Preserved /\ unfolded = token.raw_content)
                  => Texts(lines) = <<source>>

C14_Witness ==
    /\ Preserved
    /\ IsCodeSpan
    /\ tokens[1].delimiter = <<Backtick, Backtick>>
    /\ tokens[1].raw_content = <<" ", "a", " ">>
    /\ Texts(lines) = <<source>>

IsBreakCase == Len(tokens) = 3 /\ tokens[2].type = "LineBreak"

\* C15: a LineBreak is hard exactly when its marker is a backslash or at
\* least two spaces, and soft for no space or one; only the particle of a
\* soft break is wrap-eligible; without max_line_length both kinds leave
\* their marker at the end of the line they break.
C15_LineBreakKinds ==
    IsBreakCase
    => LET marker == tokens[2].marker
           hard == marker = <<"\\">> \/ (Len(marker) >= 2 /\ IsSpace(marker))
       IN  /\ tokens[2].soft = ~hard
           /\ pc # "start"
                  => /\ particles[2].text = marker \o <<"\n">>
                     /\ particles[2].wordwrap = ~hard
           /\ Preserved => Texts(lines) = << <<"a">> \o marker, <<"b">> >>

C15_Witness ==
    /\ Preserved
    /\ IsBreakCase
    /\ tokens[2].marker = <<" ">>
    /\ tokens[2].soft
    /\ Len(lines) = 2

----------------------------------------------------------------------------
(* Further properties of SpecBlock. *)

\* Lines with a prefix put before the first and another before every
\* following line; a line of whitespace only becomes the empty line.
Prefixed(ls, first, following) ==
    [k \in 1..Len(ls) |->
        LET l == (IF k = 1 THEN first ELSE following) \o ls[k]
        IN  IF l # <<>> /\ \A i \in 1..Len(l) : IsSpaceChar(l[i]) THEN <<>> ELSE l]

\* The max_line_length left for the children of a container whose prefix
\* is width wide.
ChildBudget(max_len, width) ==
    IF Truthy(max_len) THEN Some(max_len[1] - width) ELSE None

\* The lines of a list item: the lines of its children with the leader and
\* one space before the first and len(leader) + 1 spaces before the others.
Normalized(item, max_len) ==
    LET width == Len(item.leader) + 1
    IN  Prefixed(blocks_to_lines(item.children, ChildBudget(max_len, width)),
                 item.leader \o <<" ">>, [i \in 1..width |-> " "])

IsItem(b) == b.type = "List" /\ b.children[1].type = "ListItem"

\* C16: the first line of a list item's content is prefixed with the leader
\* and one space and every following line with len(leader) + 1 spaces, with
\* and without max_line_length, for an item at the top of the document, in a
\* block quote and in another list item.
C16_ListItemIndentation ==
    pc = "done" =>
        LET b == tokens[1]
        IN  /\ IsItem(b) => lines = Normalized(b.children[1], max_line_length)
            /\ (b.type = "Quote" /\ IsItem(b.children[1]))
                   => lines = Prefixed(Normalized(b.children[1].children[1],
                                                  ChildBudget(max_line_length, 2)),
                                       <<">", " ">>, <<">", " ">>)
            /\ (IsItem(b) /\ IsItem(b.children[1].children[1]))
                   => LET outer == b.children[1]
                          width == Len(outer.leader) + 1
                      IN  lines = Prefixed(
                                      Normalized(outer.children[1].children[1],
                                                 ChildBudget(max_line_length, width)),
                                      outer.leader \o <<" ">>,
                                      [i \in 1..width |-> " "])

\* C16 witness: a reflowed paragraph in an item with a three-character
\* leader, itself in a one-character item: its second line is indented by
\* 2 + 4 spaces.
C16_Witness ==
    /\ Reflowed
    /\ IsItem(tokens[1])
    /\ tokens[1].children[1].leader = <<"-">>
    /\ IsItem(tokens[1].children[1].children[1])
    /\ tokens[1].children[1].children[1].children[1].leader = <<"1", "2", ")">>
    /\ Len(lines) >= 2
    /\ StartsWith(lines[2], <<" ", " ", " ", " ", " ", " ", "b">>)

\* C17: a line that consists only of a container's prefix, because the
\* content line it prefixes is empty, is emitted as the empty line: for the
\* prefix of a block quote, for both prefixes of a list item and for the
\* indentation of a code block.
C17_PrefixOnlyLinesEmpty ==
    (pc = "done" /\ ~Truthy(max_line_length)) =>
        LET b == tokens[1]
            inner == CASE b.type = "Quote" -> blocks_to_lines(b.children, None)
                       [] IsItem(b) -> blocks_to_lines(b.children[1].children, None)
                       [] b.type = "BlockCode" -> content_lines(b)
                       [] OTHER -> <<>>
        IN  \A k \in 1..Len(inner) : inner[k] = <<>> => lines[k] = <<>>

----------------------------------------------------------------------------
(* SpecRegistry: two callers work on the token type list of span_token.py  *)
(* with add_token, remove_token and reset_tokens, and parse with            *)
(* tokenize_inner.                                                         *)

MaxCalls == 3

\* The classes the callers register: one that is not in __all__, one that
\* is, and one without the pattern that SpanToken.find reads.
TokenClasses == {"HTMLSpan", "EscapeSequence", "Malformed"}

IllFormed(token_cls) == token_cls = "Malformed"

\* The position argument of add_token; 1 is its default.
Positions == {-1, 1, 2}

InitRegistry ==
    /\ RegistryInit
    /\ tokens = <<>>
    /\ max_line_length = None
    /\ pc = "idle"
    /\ particles = <<>>
    /\ words = <<>>
    /\ lines = <<>>
    /\ tbl_content = <<>>
    /\ tbl_widths = <<>>
    /\ source = <<>>
    /\ rendered = <<>>

\* add_token(token_cls, position)
AddToken(c, token_cls, position) ==
    /\ calls < MaxCalls
    /\ token_types' = add_token(token_types, token_cls, position)
    /\ own' = [own EXCEPT ![c] = add_token(own[c], token_cls, position)]
    /\ last_call' = [op |-> "add_token", caller |-> c, token_cls |-> token_cls,
                     before |-> token_types, raised |-> None]
    /\ calls' = calls + 1
    /\ UNCHANGED used
    /\ UNCHANGED render_vars

\* remove_token(token_cls); the call is recorded as "remove_after_add" when
\* it follows the add_token call for the same class, with the list from
\* before that call.
RemoveToken(c, token_cls) ==
    /\ calls < MaxCalls
    /\ token_types' = remove_token(token_types, token_cls)
    /\ own' = [own EXCEPT ![c] = remove_token(own[c], token_cls)]
    /\ last_call' =
           IF last_call.op = "add_token" /\ last_call.token_cls = token_cls
           THEN [op |-> "remove_after_add", caller |-> c, token_cls |-> token_cls,
                 before |-> last_call.before,
                 raised |-> remove_token_raises(token_types, token_cls)]
           ELSE [op |-> "remove_token", caller |-> c, token_cls |-> token_cls,
                 before |-> token_types,
                 raised |-> remove_token_raises(token_types, token_cls)]
    /\ calls' = calls + 1
    /\ UNCHANGED used
    /\ UNCHANGED render_vars

\* reset_tokens()
ResetTokens(c) ==
    /\ calls < MaxCalls
    /\ token_types' = reset_tokens
    /\ own' = [own EXCEPT ![c] = reset_tokens]
    /\ last_call' = [op |-> "reset_tokens", caller |-> c, token_cls |-> "",
                     before |-> token_types, raised |-> None]
    /\ calls' = calls + 1
    /\ UNCHANGED used
    /\ UNCHANGED render_vars

\* What tokenizing with the types raises: find of a class without pattern
\* raises AttributeError.
tokenize_raises(types) ==
    IF \E i \in 1..Len(types) : IllFormed(types[i])
    THEN <<"AttributeError">> ELSE None

\* tokenize_inner(content): tokenizer.tokenize(content, _token_types) with
\* the list of the module as it is at the call.
TokenizeInner(c) ==
    /\ calls < MaxCalls
    /\ used' = [used EXCEPT ![c] = Some([types |-> token_types, own |-> own[c],
                                        raised |-> tokenize_raises(token_types)])]
    /\ last_call' = [op |-> "tokenize_inner", caller |-> c, token_cls |-> "",
                     before |-> token_types,
                     raised |-> tokenize_raises(token_types)]
    /\ calls' = calls + 1
    /\ UNCHANGED <<token_types, own>>
    /\ UNCHANGED render_vars

NextRegistry ==
    \E c \in Callers :
        \/ \E token_cls \in TokenClasses, position \in Positions :
               AddToken(c, token_cls, position)
        \/ \E token_cls \in TokenClasses : RemoveToken(c, token_cls)
        \/ ResetTokens(c)
        \/ TokenizeInner(c)

SpecRegistry == InitRegistry /\ [][NextRegistry]_vars

----------------------------------------------------------------------------
(* Properties of SpecRegistry. *)

\* The list without its item at index i.
Without(l, i) == SubSeq(l, 1, i - 1) \o SubSeq(l, i + 1, Len(l))

\* C18: add_token(X, p) inserts X and leaves the other entries in their
\* order, and the remove_token(X) that follows it gives back the list as it
\* was before the add_token call, also when X was in the list already.
C18_AddRemoveRestores ==
    /\ last_call.op = "add_token"
           => \E i \in 1..Len(token_types) :
                  /\ token_types[i] = last_call.token_cls
                  /\ Without(token_types, i) = last_call.before
    /\ last_call.op = "remove_after_add" => token_types = last_call.before

\* C19: the token types a caller's tokenize_inner uses are those its own
\* add_token, remove_token and reset_tokens calls give, whatever the other
\* caller registered or removed in between.
C19_RegistryIsolation ==
    \A c \in Callers :
        used[c] # None => used[c][1].types = used[c][1].own

\* C20: add_token with an ill-formed class raises and leaves the list as it
\* was; tokenize_inner never meets such a class.
C20_RegistrationValidates ==
    /\ (last_call.op = "add_token" /\ IllFormed(last_call.token_cls))
           => (last_call.raised # None /\ token_types = last_call.before)
    /\ \A c \in Callers : used[c] # None => used[c][1].raised = None

----------------------------------------------------------------------------
(* SpecMissing: MarkdownRenderer.render on documents that hold tokens of a  *)
(* class without an entry in render_map.                                   *)

\* The class names render_map has an entry for: the token classes the
\* renderer has a render method for.
render_map_keys ==
    { "RawText", "Strong", "Emphasis", "InlineCode", "Strikethrough", "Image",
      "Link", "AutoLink", "EscapeSequence", "LineBreak", "HTMLSpan",
      "LinkReferenceDefinition", "Document", "Heading", "SetextHeading",
      "Quote", "Paragraph", "BlockCode", "CodeFence", "List", "ListItem",
      "Table", "ThematicBreak", "HTMLBlock", "LinkReferenceDefinitionBlock",
      "BlankLine" }

lookup_raises_never(name) == FALSE

\* self.render_map[name] raises KeyError for a name that is not a key.
lookup_raises(name) == name \notin render_map_keys

\* The class names looked up while the particles of span tokens are
\* consumed: of each token, and of the children that embed_span renders.
RECURSIVE span_lookups(_)
span_lookups(toks) ==
    UNION { {toks[k].type} \cup
            (IF toks[k].type \in {"Strong", "Emphasis", "Strikethrough", "Link", "Image"}
             THEN span_lookups(toks[k].children) ELSE {}) : k \in 1..Len(toks) }

\* The class names looked up for the cells of a table row.
row_lookups(row) ==
    UNION { span_lookups(row.children[c].children) : c \in 1..Len(row.children) }

\* The class names looked up while the lines of block tokens are consumed.
RECURSIVE block_lookups(_)
block_lookups(toks) ==
    UNION { {toks[k].type} \cup
            (CASE toks[k].type \in {"Document", "Quote", "List", "ListItem"} ->
                      block_lookups(toks[k].children)
               [] toks[k].type \in {"Paragraph", "Heading", "SetextHeading"} ->
                      span_lookups(toks[k].children)
               [] toks[k].type = "Table" ->
                      UNION { row_lookups(row) :
                                  row \in {toks[k].header} \cup
                                          {toks[k].children[r] :
                                               r \in 1..Len(toks[k].children)} }
               [] OTHER -> {}) : k \in 1..Len(toks) }

\* The tokens whose handler was found: all of them when no lookup raised.
RECURSIVE found(_)
found(toks) ==
    LET kept == SelectSeq(toks, LAMBDA t : t.type \in render_map_keys)
    IN  [k \in 1..Len(kept) |->
            IF kept[k].type = "Table"
            THEN [kept[k] EXCEPT
                     !.header = TableRow([c \in 1..Len(@.children) |->
                                     TableCell(found(@.children[c].children))])]
            ELSE IF "children" \in DOMAIN kept[k]
                    /\ kept[k].type \notin {"InlineCode", "AutoLink", "EscapeSequence",
                                            "BlockCode", "CodeFence"}
            THEN [kept[k] EXCEPT !.children = found(@)]
            ELSE kept[k]]

\* A span token of a class of span_token.py the renderer has no method for,
\* and a block token of a caller's own class.
XWikiBlockMacroStart(content) == [type |-> "XWikiBlockMacroStart", content |-> content]

CustomBlock == [type |-> "CustomBlock", children |-> <<>>]

SpanContexts(x) ==
    { <<x>>,
      <<RawText(<<"a", " ">>), x>>,
      <<Strong(<<"*">>, <<x>>)>>,
      <<Emphasis(<<"_">>, <<Strong(<<"*">>, <<RawText(<<"a">>), x>>)>>)>>,
      <<Strikethrough(<<x>>)>>,
      <<Link(<<x>>, <<"u">>, <<>>, Some("uri"), None, None)>>,
      <<Image(<<x>>, <<"u">>, <<>>, Some("shortcut"), None, None)>> }

BlockContexts(spans) ==
    { Paragraph(spans),
      Heading(1, spans, <<>>),
      SetextHeading(2, spans, 3),
      Quote(<<Paragraph(spans)>>),
      List(<<ListItem(<<"-">>, <<Paragraph(<<RawText(<<"a">>)>>), Paragraph(spans)>>)>>),
      Table(TableRow(<<TableCell(<<RawText(<<"a">>)>>), TableCell(spans)>>),
            <<>>, <<None>>) }

MissingDocuments ==
    UNION { BlockContexts(spans) :
                spans \in SpanContexts(XWikiBlockMacroStart(<<"{", "{", "m", "}", "}">>))
                          \cup SpanContexts(RawText(<<"b", " ", "c">>)) }
    \cup { CustomBlock, Quote(<<CustomBlock>>),
           List(<<ListItem(<<"-">>, <<Paragraph(<<RawText(<<"a">>)>>), CustomBlock>>)>>) }

InitMissing ==
    /\ tokens \in {<<b>> : b \in MissingDocuments}
    /\ max_line_length \in {None} \cup {Some(n) : n \in 1..MaxLineLength}
    /\ pc = "start"
    /\ RegistryInit
    /\ particles = <<>>
    /\ words = <<>>
    /\ lines = <<>>
    /\ tbl_content = <<>>
    /\ tbl_widths = <<>>
    /\ source = <<>>
    /\ rendered = <<>>

\* render(Document, max_line_length): the first lookup of a class name that
\* is not a key of render_map raises KeyError out of render.
RenderOrRaise ==
    /\ pc = "start"
    /\ IF \E name \in block_lookups(<<Document(tokens)>>) : lookup_raises(name)
       THEN /\ pc' = "KeyError"
            /\ UNCHANGED <<lines, rendered>>
       ELSE /\ pc' = "done"
            /\ lines' = render_block(Document(found(tokens)), max_line_length)
            /\ rendered' = render(Document(found(tokens)), max_line_length)
    /\ UNCHANGED registry_vars
    /\ UNCHANGED <<tokens, max_line_length, particles, words, tbl_content,
                   tbl_widths, source>>

NextMissing == RenderOrRaise

SpecMissing == InitMissing /\ [][NextMissing]_vars

----------------------------------------------------------------------------
(* Properties of SpecMissing. *)

\* The tokens of a tree: the tokens and, level by level, their children and
\* the cells of their rows.
RECURSIVE TreeTokens(_)
TreeTokens(toks) ==
    UNION { {toks[k]}
            \cup (IF "children" \in DOMAIN toks[k] THEN TreeTokens(toks[k].children)
                  ELSE {})
            \cup (IF "header" \in DOMAIN toks[k] THEN TreeTokens(<<toks[k].header>>)
                  ELSE {}) : k \in 1..Len(toks) }

HasUnhandledToken ==
    \E t \in TreeTokens(tokens) : t.type \in {"XWikiBlockMacroStart", "CustomBlock"}

\* C21: when the tree holds a block or span token whose class has no entry
\* in render_map, render ends with an error and returns no string.
C21_MissingHandlerFatal ==
    (pc # "start" /\ HasUnhandledToken) => (pc = "KeyError" /\ rendered = <<>>)

C21_Witness ==
    /\ pc = "KeyError"
    /\ tokens[1].type = "Quote"
    /\ tokens[1].children[1].type = "Paragraph"
    /\ tokens[1].children[1].children[1].type = "Emphasis"

----------------------------------------------------------------------------
(* Further properties of Spec. *)

\* The characters of the lines that are not whitespace, in order.
NonWhitespace(ls) ==
    SelectSeq(Chain(Texts(ls)), LAMBDA ch : ~IsSpaceChar(ch))

\* C22: for the same span tokens, the lines of the reflow mode and the lines
\* of the preserving mode hold the same non-whitespace characters in the
\* same order.
C22_ModesAgreeOnAtoms ==
    Reflowed => NonWhitespace(lines) = NonWhitespace(span_to_lines(tokens, None))

\* The characters of the particles with what reflow may do at each: "space"
\* for a whitespace character of a wrap-eligible particle, "hard" for the
\* newline of a hard line break, "glyph" for every other character.
Marked(parts) ==
    Chain([i \in 1..Len(parts) |->
              [c \in 1..Len(parts[i].text) |->
                  [ch |-> parts[i].text[c],
                   kind |-> IF parts[i].wordwrap
                            THEN (IF IsSpaceChar(parts[i].text[c]) THEN "space"
                                  ELSE "glyph")
                            ELSE IF parts[i].token = "LineBreak" /\ ~parts[i].soft
                                    /\ c = Len(parts[i].text)
                            THEN "hard" ELSE "glyph"]]])

\* The unbreakable units of the marked characters: maximal runs of glyphs.
\* hard tells that a hard line break ends the unit.
RECURSIVE Units(_, _, _, _)
Units(marked, i, cur, out) ==
    IF i > Len(marked)
    THEN IF cur # <<>> THEN Append(out, [text |-> cur, hard |-> FALSE]) ELSE out
    ELSE CASE marked[i].kind = "glyph" ->
                  Units(marked, i + 1, Append(cur, marked[i].ch), out)
           [] marked[i].kind = "space" ->
                  Units(marked, i + 1, <<>>,
                        IF cur # <<>> THEN Append(out, [text |-> cur, hard |-> FALSE])
                        ELSE out)
           [] marked[i].kind = "hard" ->
                  Units(marked, i + 1, <<>>, Append(out, [text |-> cur, hard |-> TRUE]))

\* The text is units i, i + 1, ... joined by single spaces, ending with the
\* text or, before that, with a unit that a hard line break ends: the index
\* of the unit after the last one, 0 when the text is no such join.
RECURSIVE MatchLine(_, _, _)
MatchLine(text, units, i) ==
    IF i > Len(units) \/ ~StartsWith(text, units[i].text) THEN 0
    ELSE LET rest == SubSeq(text, Len(units[i].text) + 1, Len(text))
         IN  IF rest = <<>> THEN i + 1
             ELSE IF units[i].hard \/ rest[1] # " " THEN 0
             ELSE MatchLine(Tail(rest), units, i + 1)

\* The lines from k on are such joins of the units from i on, all used.
RECURSIVE MatchLines(_, _, _, _)
MatchLines(ls, k, units, i) ==
    IF k > Len(ls) THEN i = Len(units) + 1
    ELSE LET n == MatchLine(ls[k].text, units, i)
         IN  n # 0 /\ MatchLines(ls, k + 1, units, n)

\* C23: reflow ends a line only at a whitespace run of a wrap-eligible
\* particle or at a hard line break: every line is a join by single spaces
\* of whole unbreakable units, so that a delimiter and the word next to it
\* share a line for every max_line_length.
C23_BreaksOnlyAtWhitespace ==
    Reflowed => MatchLines(lines, 1, Units(Marked(particles), 1, <<>>, <<>>), 1)

\* C23 witness: with max_line_length 1, a strong emphasis of two words:
\* each word is on a line with its delimiters.
C23_Witness ==
    /\ Reflowed
    /\ max_line_length = Some(1)
    /\ \E k \in 1..(Len(lines) - 1) :
           /\ lines[k].text = <<"_", "_", "*", "x">>
           /\ lines[k + 1].text = <<"y", "*", "_", "_">>

----------------------------------------------------------------------------
(* SpecRefs: MarkdownRenderer.render on a document that is one block of     *)
(* link reference definitions.                                             *)

MaxDefs == 2

Definitions ==
    { LinkReferenceDefinition(label, <<"/", "u">>, <<>>, Some("uri"), None) :
          label \in {<<"l">>, <<"l", " ", " ", "m">>} }
    \cup
    { LinkReferenceDefinition(label, dest.text, <<"t", " ", " ", "v">>, dest.type, q) :
          label \in {<<"l">>, <<"l", " ", " ", "m">>},
          dest \in {[text |-> <<"/", "u">>, type |-> Some("uri")],
                    [text |-> <<"/", "u", " ", "w">>, type |-> Some("angle_uri")]},
          q \in {<<"\"">>, <<"(">>} }

InitRefs ==
    /\ \E n \in 1..MaxDefs : \E defs \in [1..n -> Definitions] :
           tokens = <<LinkReferenceDefinitionBlock(defs)>>
    /\ max_line_length \in {None} \cup {Some(n) : n \in 1..MaxLineLength}
    /\ pc = "start"
    /\ RegistryInit
    /\ particles = <<>>
    /\ words = <<>>
    /\ lines = <<>>
    /\ tbl_content = <<>>
    /\ tbl_widths = <<>>
    /\ source = <<>>
    /\ rendered = <<>>

SpecRefs == InitRefs /\ [][NextBlock]_vars

----------------------------------------------------------------------------
(* Properties of SpecRefs. *)

\* The destination of a definition as written: in angle brackets or plain.
DestPart(def) ==
    IF def.dest_type = Some("angle_uri") THEN <<"<">> \o def.dest \o <<">">>
    ELSE def.dest

\* The parts of a definition before and after its destination.
BeforeDest(def) == <<"[">> \o def.label \o <<"]", ":", " ">>

AfterDest(def) ==
    IF def.title = <<>> THEN <<>>
    ELSE <<" ">> \o def.title_delimiter \o def.title
         \o (IF def.title_delimiter = <<"(">> THEN <<")">> ELSE def.title_delimiter)

\* A text with every run of spaces replaced by one space.
Collapsed(text) ==
    SelectSeq([i \in 1..Len(text) |->
                  IF text[i] = " " /\ i > 1 /\ text[i - 1] = " " THEN "" ELSE text[i]],
              LAMBDA ch : ch # "")

\* The lines k .. m joined by single spaces.
RECURSIVE Joined(_, _, _)
Joined(ls, k, m) ==
    IF k > m THEN <<>>
    ELSE IF k = m THEN ls[k]
    ELSE ls[k] \o <<" ">> \o Joined(ls, k + 1, m)

\* The lines from k on are, definition by definition from j on, the lines of
\* that definition alone: one line with its text in preserving mode; in
\* reflow mode lines that joined give its text with label and title
\* collapsed, one of them holding the destination whole.
RECURSIVE DefinitionsApart(_, _, _, _, _)
DefinitionsApart(ls, k, defs, j, reflow) ==
    IF j > Len(defs) THEN k = Len(ls) + 1
    ELSE LET def == defs[j]
             text == IF reflow
                     THEN Collapsed(BeforeDest(def)) \o DestPart(def)
                              \o Collapsed(AfterDest(def))
                     ELSE BeforeDest(def) \o DestPart(def) \o AfterDest(def)
         IN  \E m \in k..Len(ls) :
                 /\ Joined(ls, k, m) = text
                 /\ reflow \/ m = k
                 /\ \E n \in k..m : \E a \in 0..(Len(ls[n]) - Len(DestPart(def))) :
                        SubSeq(ls[n], a + 1, a + Len(DestPart(def))) = DestPart(def)
                 /\ DefinitionsApart(ls, m + 1, defs, j + 1, reflow)

----------------------------------------------------------------------------
(* SpecSetext: MarkdownRenderer.render on a document that is one setext     *)
(* heading.                                                                *)

MaxUnderline == 6

SetextVocabulary ==
    { RawText(<<"a">>),
      RawText(<<"b", "b", " ", "c">>),
      LineBreak(<<>>),
      Emphasis(<<"*">>, <<RawText(<<"x", " ", "y">>)>>) }

\* The content of a heading: it neither starts nor ends with a line break.
SetextChildren ==
    { spans \in SeqsUpTo(SetextVocabulary, MaxTokens) :
          /\ spans # <<>>
          /\ spans[1].type # "LineBreak"
          /\ spans[Len(spans)].type # "LineBreak" }

InitSetext ==
    /\ \E level \in {1, 2}, spans \in SetextChildren,
          underline_length \in 1..MaxUnderline :
           tokens = <<SetextHeading(level, spans, underline_length)>>
    /\ max_line_length \in {None} \cup {Some(n) : n \in 1..MaxLineLength}
    /\ pc = "start"
    /\ RegistryInit
    /\ particles = <<>>
    /\ words = <<>>
    /\ lines = <<>>
    /\ tbl_content = <<>>
    /\ tbl_widths = <<>>
    /\ source = <<>>
    /\ rendered = <<>>

SpecSetext == InitSetext /\ [][NextBlock]_vars

----------------------------------------------------------------------------
(* Properties of SpecSetext. *)

\* C25: a setext heading renders as its text lines, re-wrapped when there is
\* a max_line_length, followed by one underline: underline_length copies of
\* "=" for level 1 and of "-" otherwise, whatever the max_line_length and
\* the length of the text.
C25_SetextUnderline ==
    pc = "done" =>
        LET token == tokens[1]
            char == IF token.level = 1 THEN "=" ELSE "-"
            text == Texts(span_to_lines(token.children, max_line_length))
        IN  /\ Len(lines) = Len(text) + 1
            /\ SubSeq(lines, 1, Len(text)) = text
            /\ Len(lines[Len(lines)]) = token.underline_length
            /\ \A i \in 1..token.underline_length : lines[Len(lines)][i] = char

\* C25 witness: a heading whose text is wrapped onto several lines and
\* whose underline is longer than max_line_length and than each text line.
C25_Witness ==
    /\ Reflowed
    /\ Len(lines) >= 3
    /\ Len(lines[Len(lines)]) > max_line_length[1]
    /\ \A k \in 1..(Len(lines) - 1) : Len(lines[k]) < Len(lines[Len(lines)])

----------------------------------------------------------------------------
(* Properties of Spec: the packing of words into lines. *)

\* C26: in reflow mode a word starts a new line only when it does not fit:
\* for two consecutive lines, the first not ended by a hard line break, the
\* length of the first plus one space plus the length of the first word of
\* the second exceeds max_line_length.
C26_GreedyPacking ==
    Reflowed =>
        \A k \in 1..(Len(lines) - 1) :
            ~lines[k].hard =>
                Len(lines[k].text) + 1 + Len(words[lines[k + 1].widx[1]])
                    > max_line_length[1]

\* C26 witness: a word was moved to a new line because it was exactly one
\* character too long for the line before, while another line holds two words.
C26_Witness ==
    /\ Reflowed
    /\ \E k \in 1..Len(lines) : Len(lines[k].widx) >= 2
    /\ \E k \in 1..(Len(lines) - 1) :
           /\ ~lines[k].hard
           /\ Len(lines[k].text) + 1 + Len(words[lines[k + 1].widx[1]])
                  = max_line_length[1] + 1

\* The words of make_words that are not the hard line break sentinel.
RealWords == SelectSeq(words, LAMBDA w : w # <<"\n">>)

\* The words put on the lines, line after line.
WordsOnLines == Chain([k \in 1..Len(lines) |->
                          [p \in 1..Len(lines[k].widx) |-> words[lines[k].widx[p]]]])

\* The words joined by single spaces.
RECURSIVE SpaceJoined(_)
SpaceJoined(ws) ==
    IF ws = <<>> THEN <<>>
    ELSE IF Len(ws) = 1 THEN ws[1]
    ELSE ws[1] \o <<" ">> \o SpaceJoined(Tail(ws))

\* C27: in reflow mode the words of the lines, read in order, are the words
\* of make_words without the hard line break sentinels; every line is its
\* words joined by single spaces, and no line is empty.
C27_WordsConserved ==
    Reflowed =>
        /\ WordsOnLines = RealWords
        /\ \A k \in 1..Len(lines) :
               /\ lines[k].text # <<>>
               /\ lines[k].text =
                      SpaceJoined([p \in 1..Len(lines[k].widx) |->
                                      words[lines[k].widx[p]]])

\* C27 witness: several words, a hard line break among them, on several
\* lines, one of which holds two words.
C27_Witness ==
    /\ Reflowed
    /\ Len(RealWords) >= 4
    /\ Len(RealWords) < Len(words)
    /\ Len(lines) >= 2
    /\ \E k \in 1..Len(lines) : Len(lines[k].widx) >= 2

----------------------------------------------------------------------------
(* SpecEmpty: MarkdownRenderer.render on a document whose innermost block   *)
(* is a block quote or a list item without children.                        *)

Leaders == { <<"-">>, <<"*">>, <<"1", ".">>, <<"1", "2", ")">> }

EmptyContainers ==
    {Quote(<<>>)} \cup { List(<<ListItem(leader, <<>>)>>) : leader \in Leaders }

RECURSIVE NestedEmpty(_)
NestedEmpty(depth) ==
    IF depth = 0 THEN EmptyContainers
    ELSE NestedEmpty(depth - 1)
             \cup UNION {Containers(b) : b \in NestedEmpty(depth - 1)}

InitEmpty ==
    /\ tokens \in {<<b>> : b \in NestedEmpty(MaxDepth)}
    /\ max_line_length \in {None} \cup {Some(n) : n \in 1..MaxWidth}
    /\ pc = "start"
    /\ RegistryInit
    /\ particles = <<>>
    /\ words = <<>>
    /\ lines = <<>>
    /\ tbl_content = <<>>
    /\ tbl_widths = <<>>
    /\ source = <<>>
    /\ rendered = <<>>

SpecEmpty == InitEmpty /\ [][NextBlock]_vars

----------------------------------------------------------------------------
(* Properties of SpecEmpty. *)

\* The first-line prefixes of the containers around and including the
\* innermost one, outermost first.
RECURSIVE MarkerPrefix(_)
MarkerPrefix(b) ==
    CASE b.type = "Quote" ->
            <<">", " ">> \o (IF b.children = <<>> THEN <<>>
                             ELSE MarkerPrefix(b.children[1]))
      [] b.type = "List" -> MarkerPrefix(b.children[1])
      [] b.type = "ListItem" ->
            b.leader \o <<" ">> \o (IF b.children = <<>> THEN <<>>
                                    ELSE MarkerPrefix(b.children[1]))

\* C28: a block quote without children and a list item without children
\* each render exactly one line, the first-line prefix of the container
\* ('> ' for the quote, leader + ' ' for the list item) applied to an empty
\* line, with and without max_line_length; nested in other containers the
\* line carries their first-line prefixes too.
C28_EmptyContainerMarker ==
    pc = "done" => lines = << MarkerPrefix(tokens[1]) >>

----------------------------------------------------------------------------
(* SpecFence: MarkdownRenderer.render on a document that is one fenced code *)
(* block of zero or more content lines.                                     *)

MaxCodeLines == 3

CodeLines == { <<>>, <<"x">>, <<" ", "y", " ", "z">> }

\* The content of a code block: every line terminated by a newline.
RECURSIVE Terminated(_)
Terminated(ls) ==
    IF ls = <<>> THEN <<>> ELSE ls[1] \o <<"\n">> \o Terminated(Tail(ls))

Fences ==
    { CodeFence(indentation, delimiter, info_string, Terminated(ls)) :
        indentation \in 0..2,
        delimiter \in { <<Backtick, Backtick, Backtick>>, <<"~", "~", "~", "~">> },
        info_string \in { <<>>, <<"p", "y">> },
        ls \in SeqsUpTo(CodeLines, MaxCodeLines) }

InitFence ==
    /\ tokens \in {<<b>> : b \in Fences}
    /\ max_line_length \in {None, Some(MaxLineLength)}
    /\ pc = "start"
    /\ RegistryInit
    /\ particles = <<>>
    /\ words = <<>>
    /\ lines = <<>>
    /\ tbl_content = <<>>
    /\ tbl_widths = <<>>
    /\ source = <<>>
    /\ rendered = <<>>

SpecFence == InitFence /\ [][NextBlock]_vars

----------------------------------------------------------------------------
(* Properties of SpecFence. *)

\* The number of newline-terminated lines of a text.
RECURSIVE CountNewlines(_)
CountNewlines(s) ==
    IF s = <<>> THEN 0
    ELSE (IF s[1] = "\n" THEN 1 ELSE 0) + CountNewlines(Tail(s))

\* The k-th newline-terminated line of a text, without its newline.
RECURSIVE NthLine(_, _)
NthLine(s, k) ==
    LET first == CHOOSE n \in 1..Len(s) :
                     s[n] = "\n" /\ \A m \in 1..(n - 1) : s[m] # "\n"
    IN  IF k = 1 THEN SubSeq(s, 1, first - 1)
        ELSE NthLine(SubSeq(s, first + 1, Len(s)), k - 1)

\* C29: a fenced code block whose content is k newline-terminated lines,
\* k >= 0, renders exactly k+2 lines: the opening fence (indentation,
\* delimiter, info string), the k content lines each prefixed with the
\* indentation (a line of nothing but spaces being emitted empty), and the
\* closing fence (indentation, delimiter).
C29_FenceLineCount ==
    pc = "done" =>
        LET token == tokens[1]
            content == token.children[1].content
            k == CountNewlines(content)
            indentation == Repeat(" ", token.indentation)
        IN  /\ Len(lines) = k + 2
            /\ lines[1] = indentation \o token.delimiter \o token.info_string
            /\ lines[Len(lines)] = indentation \o token.delimiter
            /\ \A n \in 1..k :
                   lines[n + 1] = blank_if_space(indentation \o NthLine(content, n))

----------------------------------------------------------------------------
(* Further properties of SpecTable. *)

RECURSIVE SumOf(_)
SumOf(ns) == IF ns = <<>> THEN 0 ELSE ns[1] + SumOf(Tail(ns))

\* C30: the lines of a table (header, separator, one for each row) all have
\* the length 4 + the sum of the column widths + 3 * (columns - 1), also
\* when a row has fewer cells than the widest row and when column_align has
\* fewer entries than the table has columns.
C30_TableRectangular ==
    pc = "done" =>
        /\ Len(lines) = 2 + Len(tokens[1].children)
        /\ \A k \in 1..Len(lines) :
               Len(lines[k]) =
                   4 + SumOf(tbl_widths) + 3 * (Len(tbl_widths) - 1)

\* C30 witness: a table of three columns with fewer alignments than columns,
\* a column wider than the minimum, and a row with fewer cells than columns.
C30_Witness ==
    /\ pc = "done"
    /\ Len(tbl_widths) = 3
    /\ Len(tokens[1].column_align) < Len(tbl_widths)
    /\ \E c \in 1..Len(tbl_widths) : tbl_widths[c] > 3
    /\ \E r \in 1..Len(tokens[1].children) :
           Len(tokens[1].children[r].children) < Len(tbl_widths)
    /\ Len(lines) = 4

====
